---- MODULE Spec2Model ----
(***************************************************************************)
(* A model of jailer: the quarantine engine that confines processes to     *)
(* jail cgroups (cgroups v1 or v2), tracks them in the ActiveJails map,    *)
(* reconciles the map against /proc and restores everything on exit.       *)
(*                                                                         *)
(* A cgroup path is a sequence of path components, <<"jail-network">> for  *)
(* /jail-network; a file-system path below /sys/fs/cgroup is a sequence    *)
(* of components too, so that filepath.Join is sequence concatenation.     *)
(***************************************************************************)
EXTENDS Integers, Sequences, FiniteSets, TLC

VARIABLES
    version,    \* JailerState.CgroupVersion, 1 or 2
    alive,      \* the pids that have a /proc/<pid> directory
    ppid,       \* field 4 of /proc/<pid>/stat
    loc,        \* per pid and hierarchy, the cgroup the kernel has it in
    dirs,       \* the jail cgroup directories that exist below /sys/fs/cgroup
    fw,         \* whether the packet-filter rules are installed
    jails,      \* JailerState.ActiveJails
    moved,      \* the live pids the program wrote into a jail cgroup.procs
    clock,      \* the records created so far; time.Now() of the next Jail
    phase,      \* "running", or "exited" after os.Exit / return from main
    inflight,   \* the locals of a jailProcess call that moved its root
    scan,       \* the locals of a getAllDescendants call in progress
    down        \* per thread, where its cleanup call stands

vars == <<version, alive, ppid, loc, dirs, fw, jails, moved,
          clock, phase, inflight, scan, down>>

(***************************************************************************)
(* Bounds of the model.                                                    *)
(***************************************************************************)
MaxPid == 3
MaxJails == 1
MaxFail == 1

Pids == 1..MaxPid

\* The cgroups processes live in before they are jailed.
OrigCgroups == {<<"user.slice">>, <<"system.slice">>}

JailCpuCgroup == "jail-cpu"
JailNetworkCgroup == "jail-network"
JailNetworkCpuCgroup == "jail-network-cpu"

Subsystems == <<"memory", "pids", "net_cls", "cpu">>

Hierarchies(v) == IF v = 2 THEN {"unified"} ELSE {"memory", "pids", "net_cls", "cpu"}

NoCgroup == <<"-">>

Range(s) == {s[i] : i \in 1..Len(s)}

(***************************************************************************)
(* Paths.  basePath is /sys/fs/cgroup under both versions, so a path below *)
(* it is the sequence of the components that follow it.                    *)
(***************************************************************************)
NetworkCgroupPath(v) ==
    IF v = 2 THEN <<JailNetworkCgroup>> ELSE <<"memory", JailNetworkCgroup>>

CpuCgroupPath(v) ==
    IF v = 2 THEN <<JailCpuCgroup>> ELSE <<"cpu", JailCpuCgroup>>

NetworkCpuCgroupPath(v) ==
    IF v = 2 THEN <<JailNetworkCpuCgroup>> ELSE <<"cpu", JailNetworkCpuCgroup>>

\* The kernel's reading of a path below /sys/fs/cgroup: under v1 the first
\* component is the mounted hierarchy, under v2 there is one hierarchy.
HierOf(v, fs) == IF v = 2 THEN "unified" ELSE Head(fs)

CgroupOf(v, fs) == IF v = 2 THEN fs ELSE Tail(fs)

\* Directories present when the command loop starts.
InitialDirs(v) ==
    IF v = 2
    THEN {NetworkCgroupPath(2), CpuCgroupPath(2), NetworkCpuCgroupPath(2)}
    ELSE {<<Subsystems[i], JailNetworkCgroup>> : i \in 1..4}
         \cup {<<"cpu", JailCpuCgroup>>, <<"cpu", JailNetworkCpuCgroup>>}
         \cup {<<"net_cls", "jail">>}

(***************************************************************************)
(* process.go                                                              *)
(***************************************************************************)
\* strconv.Itoa and strconv.Atoi on the pid strings of the command line.
Itoa(n) == ToString(n)

AtoiOk(str) == \E n \in 0..(MaxPid + 1) : ToString(n) = str

Atoi(str) == CHOOSE n \in 0..(MaxPid + 1) : ToString(n) = str

RECURSIVE SortedSeq(_)
SortedSeq(S) ==
    IF S = {} THEN <<>>
    ELSE LET m == CHOOSE x \in S : \A y \in S : x <= y
         IN <<m>> \o SortedSeq(S \ {m})

\* getProcessChildren: the pids of /proc, in ReadDir's order, whose stat
\* names pid as parent.  An entry whose stat cannot be read is skipped.
getProcessChildren(pid) == SortedSeq({c \in alive : ppid[c] = pid})

processExists(pid) == pid \in alive

\* validateProcessAccess: "" for nil.
validateProcessAccess(pid) ==
    IF ~processExists(pid) THEN "process does not exist" ELSE ""

\* getAllDescendants.  A call of findDescendants is a frame holding the
\* children its loop has still to visit; procOk says whether os.ReadDir of
\* /proc succeeds.
ScanIdle ==
    [active |-> FALSE, root |-> 0, stack |-> <<>>, visited |-> {}, descendants |-> <<>>,
     expanded |-> <<>>, err |-> ""]

\* A findDescendants without the visited test; C10 fails of it.
findDescendantsRevisiting(sc, parentPid, procOk) ==
    IF ~procOk
    THEN [sc EXCEPT !.visited = @ \cup {parentPid},
                    !.expanded = Append(@, parentPid),
                    !.err = IF sc.stack = <<>> THEN "failed to read /proc directory" ELSE @]
    ELSE [sc EXCEPT !.visited = @ \cup {parentPid},
                    !.expanded = Append(@, parentPid),
                    !.stack = Append(@, getProcessChildren(parentPid))]

\* findDescendants(parentPid) entered from frame depth Len(sc.stack).
findDescendants(sc, parentPid, procOk) ==
    IF parentPid \in sc.visited THEN sc
    ELSE IF ~procOk
         THEN [sc EXCEPT !.visited = @ \cup {parentPid},
                         !.expanded = Append(@, parentPid),
                         !.err = IF sc.stack = <<>> THEN "failed to read /proc directory" ELSE @]
         ELSE [sc EXCEPT !.visited = @ \cup {parentPid},
                         !.expanded = Append(@, parentPid),
                         !.stack = Append(@, getProcessChildren(parentPid))]

ScanStart(pid, procOk) ==
    findDescendants([ScanIdle EXCEPT !.active = TRUE, !.root = pid], pid, procOk)

ScanDone(sc) == sc.stack = <<>>

\* The variant that drops a child whose own expansion fails.
ScanStepDroppingFailed(sc, procOk) ==
    LET top == sc.stack[Len(sc.stack)]
        rest == SubSeq(sc.stack, 1, Len(sc.stack) - 1)
    IN IF top = <<>>
       THEN [sc EXCEPT !.stack = rest]
       ELSE IF ~procOk /\ Head(top) \notin sc.visited
       THEN [sc EXCEPT !.stack = Append(rest, Tail(top)),
                       !.visited = @ \cup {Head(top)},
                       !.expanded = Append(@, Head(top))]
       ELSE findDescendants(
                [sc EXCEPT !.stack = Append(rest, Tail(top)),
                           !.descendants = Append(@, Head(top))],
                Head(top), procOk)

\* One iteration of the innermost running loop, or its return.
ScanStep(sc, procOk) ==
    LET top == sc.stack[Len(sc.stack)]
        rest == SubSeq(sc.stack, 1, Len(sc.stack) - 1)
    IN IF top = <<>>
       THEN [sc EXCEPT !.stack = rest]
       ELSE findDescendants(
                [sc EXCEPT !.stack = Append(rest, Tail(top)),
                           !.descendants = Append(@, Head(top))],
                Head(top), procOk)

RECURSIVE ScanRun(_, _)
ScanRun(sc, procOk) == IF ScanDone(sc) THEN sc ELSE ScanRun(ScanStep(sc, procOk), procOk)

\* getAllDescendants against a process table that does not change meanwhile.
getAllDescendants(pid, procOk) == ScanRun(ScanStart(pid, procOk), procOk)

\* The scan against an unchanging table in which getProcessChildren fails
\* for the pids of bad and for no other.
RECURSIVE ScanRunFailing(_, _)
ScanRunFailing(sc, bad) ==
    IF ScanDone(sc) THEN sc
    ELSE LET top == sc.stack[Len(sc.stack)]
         IN ScanRunFailing(ScanStep(sc, top = <<>> \/ Head(top) \notin bad), bad)

(***************************************************************************)
(* cgroups.go.  An operation takes the state it runs in as a record        *)
(*   [jails, loc, dirs, fw, moved, clock, log, err, first]                 *)
(* and returns the state it leaves, err holding the error it returned      *)
(* ("" for nil), log the writes it made, first the hierarchy that the      *)
(* first line of /proc/<pid>/cgroup names.  fails is the set of            *)
(* <<pid, point>> whose write the kernel refuses during the command,       *)
(* <<0, point>> for the operations that name no pid.                       *)
(***************************************************************************)
\* An entry of the log of a command: a write of pid into the cgroup.procs
\* of path, a directory removal, the firewall teardown, a row of the list.
Event(op, pid, path, ok, n) == [op |-> op, pid |-> pid, path |-> path, ok |-> ok, n |-> n]

\* The place a write can be refused at: a v1 hierarchy; under v2 the
\* cgroups below /sys/fs/cgroup/net_cls or the others.
FailPoint(fs) ==
    IF version = 2 THEN (IF Head(fs) = "net_cls" THEN "net_cls" ELSE "unified")
    ELSE Head(fs)

DirExists(s, fs) == fs \in s.dirs \/ CgroupOf(version, fs) \in OrigCgroups

IsJailCgroup(cg) == cg \notin OrigCgroups /\ cg # NoCgroup /\ cg # <<"?">>

\* The pids listed by the cgroup.procs file of directory fs.
Procs(s, fs) == {p \in alive : s.loc[p][HierOf(version, fs)] = CgroupOf(version, fs)}

\* os.WriteFile(filepath.Join(fs, "cgroup.procs"), pid): the kernel moves
\* the process, within the hierarchy of fs, into the cgroup of fs.
WriteProcs(s, fs, pid, fails) ==
    LET ok == /\ pid \in alive
              /\ DirExists(s, fs)
              /\ <<pid, FailPoint(fs)>> \notin fails
    IN [s EXCEPT !.loc = IF ok THEN [@ EXCEPT ![pid][HierOf(version, fs)] = CgroupOf(version, fs)]
                         ELSE @,
                 !.moved = IF ok /\ IsJailCgroup(CgroupOf(version, fs)) THEN @ \cup {pid} ELSE @,
                 !.log = Append(@, Event("write", pid, fs, ok, 0)),
                 !.err = IF ok THEN "" ELSE "write failed"]

\* os.MkdirAll(fs): fs and the parents of it that are missing.
MkdirAll(s, fs, fails) ==
    IF <<0, "mkdir">> \in fails
    THEN [s EXCEPT !.log = Append(@, Event("mkdir", 0, fs, FALSE, 0)), !.err = "mkdir failed"]
    ELSE [s EXCEPT !.dirs = @ \cup {SubSeq(fs, 1, k) : k \in (IF version = 2 THEN 1 ELSE 2)..Len(fs)},
                   !.log = Append(@, Event("mkdir", 0, fs, TRUE, 0)),
                   !.err = ""]

\* getProcessCgroup: the path of the first line of /proc/<pid>/cgroup.
getProcessCgroup(s, pid) == s.loc[pid][s.first]

moveProcessToCgroupV2(s, pid, fails) == WriteProcs(s, NetworkCgroupPath(2), pid, fails)

moveProcessToCgroupV1(s, pid, fails) == WriteProcs(s, <<"net_cls", "jail">>, pid, fails)

moveProcessToCgroup(s, pid, fails) ==
    IF version = 2 THEN moveProcessToCgroupV2(s, pid, fails)
    ELSE moveProcessToCgroupV1(s, pid, fails)

moveProcessToCpuCgroupV2(s, pid, fails) == WriteProcs(s, CpuCgroupPath(2), pid, fails)

moveProcessToCpuCgroupV1(s, pid, fails) ==
    LET s1 == MkdirAll(s, CpuCgroupPath(1), fails)
    IN IF s1.err # "" THEN s1 ELSE WriteProcs(s1, CpuCgroupPath(1), pid, fails)

moveProcessToCpuCgroup(s, pid, fails) ==
    IF version = 2 THEN moveProcessToCpuCgroupV2(s, pid, fails)
    ELSE moveProcessToCpuCgroupV1(s, pid, fails)

\* filepath.Join("/sys/fs/cgroup", ...): the text of a path, as the error
\* messages print it.
RECURSIVE PathText(_)
PathText(fs) ==
    IF fs = <<>> THEN "/sys/fs/cgroup"
    ELSE PathText(SubSeq(fs, 1, Len(fs) - 1)) \o "/" \o fs[Len(fs)]

\* The two errors of a refused write of moveProcessToCombinedCgroup (the
\* pid and the error of the kernel are left out of the text).
combinedError(fs) == "failed to move PID to combined cgroup " \o PathText(fs)

netClsCombinedError(fs) == "failed to move PID to net_cls combined cgroup " \o PathText(fs)

\* The variant whose errors do not tell the two writes apart.
moveProcessToCombinedCgroupAnonymous(s, pid, fails) ==
    LET s1 == MkdirAll(s, <<"net_cls", JailNetworkCpuCgroup>>, fails)
        s2 == WriteProcs(s1, NetworkCpuCgroupPath(version), pid, fails)
    IN IF s1.err # "" THEN s1
       ELSE IF s2.err # "" THEN s2
       ELSE WriteProcs(s2, <<"net_cls", JailNetworkCpuCgroup>>, pid, fails)

moveProcessToCombinedCgroup(s, pid, fails) ==
    LET combinedCgroupPath == NetworkCpuCgroupPath(version)
        netClsDir == <<"net_cls", JailNetworkCpuCgroup>>
        s1 == MkdirAll(s, netClsDir, fails)
        s2 == WriteProcs(s1, combinedCgroupPath, pid, fails)
        s3 == WriteProcs(s2, netClsDir, pid, fails)
    IN IF s1.err # ""
       THEN [s1 EXCEPT !.err = "failed to create net_cls directory for combined jail"]
       ELSE IF s2.err # "" THEN [s2 EXCEPT !.err = combinedError(combinedCgroupPath)]
       ELSE IF s3.err # "" THEN [s3 EXCEPT !.err = netClsCombinedError(netClsDir)]
       ELSE s3

restoreProcessCgroupV2(s, pid, originalCgroup, fails) ==
    WriteProcs(s, originalCgroup, pid, fails)

RECURSIVE RestoreV1From(_, _, _, _, _)
RestoreV1From(s, i, pid, originalCgroup, fails) ==
    IF i > Len(Subsystems) THEN s
    ELSE LET s1 == WriteProcs(s, <<Subsystems[i]>> \o originalCgroup, pid, fails)
         IN IF s1.err # "" THEN s1
            ELSE RestoreV1From(s1, i + 1, pid, originalCgroup, fails)

restoreProcessCgroupV1(s, pid, originalCgroup, fails) ==
    RestoreV1From(s, 1, pid, originalCgroup, fails)

restoreProcessCgroup(s, pid, originalCgroup, fails) ==
    IF version = 2 THEN restoreProcessCgroupV2(s, pid, originalCgroup, fails)
    ELSE restoreProcessCgroupV1(s, pid, originalCgroup, fails)

\* The variant that removes the directory without reading cgroup.procs.
cleanupEmptyCgroupUnread(s, fs) ==
    IF fs \in s.dirs
    THEN [s EXCEPT !.dirs = @ \ {fs},
                   !.log = Append(@, Event("rmdir", 0, fs, TRUE, 0))]
    ELSE [s EXCEPT !.log = Append(@, Event("reclaim", 0, fs, FALSE, 0))]

\* cleanupEmptyCgroup: remove the directory when its cgroup.procs can be
\* read and is empty.
cleanupEmptyCgroup(s, fs) ==
    IF fs \in s.dirs /\ Procs(s, fs) = {}
    THEN [s EXCEPT !.dirs = @ \ {fs},
                   !.log = Append(@, Event("rmdir", 0, fs, TRUE, 0))]
    ELSE [s EXCEPT !.log = Append(@, Event("reclaim", 0, fs, FALSE, 0))]

cleanupCgroupV2(s) ==
    cleanupEmptyCgroup(
        cleanupEmptyCgroup(
            cleanupEmptyCgroup(s, NetworkCgroupPath(2)),
            CpuCgroupPath(2)),
        NetworkCpuCgroupPath(2))

RECURSIVE CleanupV1From(_, _)
CleanupV1From(s, i) ==
    IF i > Len(Subsystems) THEN s
    ELSE CleanupV1From(cleanupEmptyCgroup(s, <<Subsystems[i], JailNetworkCgroup>>), i + 1)

cleanupCgroupV1(s) ==
    cleanupEmptyCgroup(
        cleanupEmptyCgroup(CleanupV1From(s, 1), <<"cpu", JailCpuCgroup>>),
        <<"cpu", JailNetworkCpuCgroup>>)

cleanupCgroup(s) == IF version = 2 THEN cleanupCgroupV2(s) ELSE cleanupCgroupV1(s)

(***************************************************************************)
(* firewall.go: the teardown the engine calls.                             *)
(***************************************************************************)
cleanupNetworkJail(s, fails) ==
    LET ok == <<0, "fwdown">> \notin fails
    IN [s EXCEPT !.fw = IF ok THEN FALSE ELSE @,
                 !.log = Append(@, Event("fwdown", 0, <<>>, ok, 0))]

(***************************************************************************)
(* main.go: the Jail record and the commands.                              *)
(***************************************************************************)
\* A HasJailType that compares the first entry only; C3 fails of it.
HasJailTypeFirstOnly(j, jailType) == Len(j.JailTypes) > 0 /\ j.JailTypes[1] = jailType

HasJailType(j, jailType) == \E i \in 1..Len(j.JailTypes) : j.JailTypes[i] = jailType

\* An AddJailType that appends without the test; C21 fails of it.
AddJailTypeAlways(j, jailType) == [j EXCEPT !.JailTypes = Append(@, jailType)]

AddJailType(j, jailType) ==
    IF ~HasJailType(j, jailType) THEN [j EXCEPT !.JailTypes = Append(@, jailType)] ELSE j

RemoveJailType(j, jailType) ==
    IF HasJailType(j, jailType)
    THEN LET i == CHOOSE k \in 1..Len(j.JailTypes) :
                     /\ j.JailTypes[k] = jailType
                     /\ \A m \in 1..(k - 1) : j.JailTypes[m] # jailType
         IN [j EXCEPT !.JailTypes = SubSeq(@, 1, i - 1) \o SubSeq(@, i + 1, Len(@))]
    ELSE j

MapDelete(m, k) == [x \in DOMAIN m \ {k} |-> m[x]]

MapPut(m, k, v) == [x \in DOMAIN m \cup {k} |-> IF x = k THEN v ELSE m[x]]

normalizeJailType(jailType) ==
    CASE jailType = "n" -> "network"
      [] jailType = "c" -> "cpu"
      [] OTHER -> jailType

\* jailProcess, lines 371-380: the root's move.
JailMoveMain(s, jailType, pid, fails) ==
    IF jailType = "cpu" THEN moveProcessToCpuCgroup(s, pid, fails)
    ELSE moveProcessToCgroup(s, pid, fails)

\* jailProcess, lines 382-397: the loop over the descendants; ok collects
\* successfulDescendants.
\* A loop over the descendants that counts every descendant as moved; C25
\* fails of it.
RECURSIVE JailMoveDescendantsKeepingAll(_, _, _, _, _)
JailMoveDescendantsKeepingAll(s, jailType, descendants, ok, fails) ==
    IF descendants = <<>> THEN [st |-> s, ok |-> ok]
    ELSE LET s1 == JailMoveMain(s, jailType, Head(descendants), fails)
         IN JailMoveDescendantsKeepingAll(s1, jailType, Tail(descendants),
                                          Append(ok, Head(descendants)), fails)

RECURSIVE JailMoveDescendants(_, _, _, _, _)
JailMoveDescendants(s, jailType, descendants, ok, fails) ==
    IF descendants = <<>> THEN [st |-> s, ok |-> ok]
    ELSE LET s1 == JailMoveMain(s, jailType, Head(descendants), fails)
         IN JailMoveDescendants(s1, jailType, Tail(descendants),
                                IF s1.err = "" THEN Append(ok, Head(descendants)) ELSE ok,
                                fails)

\* jailProcess, lines 382-413, from the locals of the call.
JailFinish(s, l, fails) ==
    LET r == JailMoveDescendants(s, l.jailType, l.descendants, <<>>, fails)
        jail == [PID |-> l.pid, OriginalCgroup |-> l.originalCgroup,
                 JailTypes |-> <<l.jailType>>, Timestamp |-> l.now,
                 Children |-> r.ok]
    IN [r.st EXCEPT !.jails = MapPut(@, l.pid, jail), !.clock = @ + 1, !.err = ""]

\* jailProcess, lines 350-380, for a pid that has no record: the state
\* after the root's move and the locals, or the error returned.
JailStart(s, jailType, pid, fails) ==
    LET sc == getAllDescendants(pid, <<0, "proc">> \notin fails)
        l == [pid |-> pid, jailType |-> jailType,
              originalCgroup |-> getProcessCgroup(s, pid),
              descendants |-> sc.descendants, now |-> s.clock]
        s1 == JailMoveMain([s EXCEPT !.log = Append(@, Event("proc", 0, <<>>, TRUE, 0))],
                           jailType, pid, fails)
    IN IF validateProcessAccess(pid) # ""
       THEN [st |-> [s EXCEPT !.err = validateProcessAccess(pid)], l |-> l]
       ELSE IF sc.err # ""
       THEN [st |-> [s EXCEPT !.log = Append(@, Event("proc", 0, <<>>, FALSE, 0)),
                              !.err = "failed to get descendants"], l |-> l]
       ELSE IF s1.err # ""
       THEN [st |-> [s1 EXCEPT !.err = "failed to move main process"], l |-> l]
       ELSE [st |-> s1, l |-> l]

\* A jailProcess that reads the cgroup of the process again when it adds a
\* type; C23 fails of it.
jailProcessRecapturing(s, jailType, pidStr, fails) ==
    LET pid == Atoi(pidStr) IN
    IF ~AtoiOk(pidStr) THEN [s EXCEPT !.err = "invalid PID"]
    ELSE IF jailType # "network" /\ jailType # "cpu"
    THEN [s EXCEPT !.err = "unsupported jail type"]
    ELSE IF pid \in DOMAIN s.jails
    THEN IF HasJailType(s.jails[pid], jailType)
         THEN [s EXCEPT !.err = "already jailed"]
         ELSE LET s1 == [s EXCEPT !.jails[pid] =
                            [AddJailType(@, jailType)
                                EXCEPT !.OriginalCgroup = getProcessCgroup(s, pid)]]
                  s2 == moveProcessToCombinedCgroup(s1, pid, fails)
              IN IF s2.err # ""
                 THEN [s2 EXCEPT !.err = "failed to move process to combined jail: " \o s2.err]
                 ELSE s2
    ELSE LET r == JailStart(s, jailType, pid, fails)
         IN IF r.st.err # "" THEN r.st ELSE JailFinish(r.st, r.l, fails)

jailProcess(s, jailType, pidStr, fails) ==
    LET pid == Atoi(pidStr) IN
    IF ~AtoiOk(pidStr) THEN [s EXCEPT !.err = "invalid PID"]
    ELSE IF jailType # "network" /\ jailType # "cpu"
    THEN [s EXCEPT !.err = "unsupported jail type"]
    ELSE IF pid \in DOMAIN s.jails
    THEN IF HasJailType(s.jails[pid], jailType)
         THEN [s EXCEPT !.err = "already jailed"]
         ELSE LET s1 == [s EXCEPT !.jails[pid] = AddJailType(@, jailType)]
                  s2 == moveProcessToCombinedCgroup(s1, pid, fails)
              IN IF s2.err # ""
                 THEN [s2 EXCEPT !.err = "failed to move process to combined jail: " \o s2.err]
                 ELSE s2
    ELSE LET r == JailStart(s, jailType, pid, fails)
         IN IF r.st.err # "" THEN r.st ELSE JailFinish(r.st, r.l, fails)

\* unjailProcess, lines 526-539: the loop over jail.Children.
RECURSIVE RestoreChildren(_, _, _, _)
RestoreChildren(s, children, originalCgroup, fails) ==
    IF children = <<>> THEN s
    ELSE RestoreChildren(
             IF ~processExists(Head(children)) THEN s
             ELSE restoreProcessCgroup(s, Head(children), originalCgroup, fails),
             Tail(children), originalCgroup, fails)

\* An unjailProcess that returns when the root's restore fails; C6 fails of
\* it.
unjailProcessAborting(s, pidStr, fails) ==
    LET pid == Atoi(pidStr) IN
    IF ~AtoiOk(pidStr) THEN [s EXCEPT !.err = "invalid PID"]
    ELSE IF pid \notin DOMAIN s.jails THEN [s EXCEPT !.err = "not jailed"]
    ELSE LET jail == s.jails[pid]
             s1 == IF processExists(pid)
                   THEN restoreProcessCgroup(s, pid, jail.OriginalCgroup, fails)
                   ELSE s
         IN IF s1.err # "" THEN [s1 EXCEPT !.err = "failed to restore"]
            ELSE [RestoreChildren(s1, jail.Children, jail.OriginalCgroup, fails)
                      EXCEPT !.jails = MapDelete(@, pid), !.err = ""]

unjailProcess(s, pidStr, fails) ==
    LET pid == Atoi(pidStr) IN
    IF ~AtoiOk(pidStr) THEN [s EXCEPT !.err = "invalid PID"]
    ELSE IF pid \notin DOMAIN s.jails THEN [s EXCEPT !.err = "not jailed"]
    ELSE LET jail == s.jails[pid]
             s1 == IF processExists(pid)
                   THEN restoreProcessCgroup(s, pid, jail.OriginalCgroup, fails)
                   ELSE s
             s2 == RestoreChildren(s1, jail.Children, jail.OriginalCgroup, fails)
         IN [s2 EXCEPT !.jails = MapDelete(@, pid), !.err = ""]

\* unjailProcessSelective, lines 451-493: the move that the remaining
\* jail types select.
MoveToRemaining(s, pid, remaining, fails) ==
    IF Len(remaining) # 1 THEN moveProcessToCombinedCgroup(s, pid, fails)
    ELSE IF remaining[1] = "cpu" THEN moveProcessToCpuCgroup(s, pid, fails)
    ELSE IF remaining[1] = "network" THEN moveProcessToCgroup(s, pid, fails)
    ELSE s

RECURSIVE MoveChildren(_, _, _, _)
MoveChildren(s, children, remaining, fails) ==
    IF children = <<>> THEN s
    ELSE MoveChildren(
             IF ~processExists(Head(children)) THEN s
             ELSE MoveToRemaining(s, Head(children), remaining, fails),
             Tail(children), remaining, fails)

\* An unjailProcessSelective that removes the last type like any other;
\* C12 fails of it.
unjailProcessSelectiveKeepingRecord(s, jailType, pidStr, fails) ==
    LET pid == Atoi(pidStr) IN
    IF ~AtoiOk(pidStr) THEN [s EXCEPT !.err = "invalid PID"]
    ELSE IF pid \notin DOMAIN s.jails THEN [s EXCEPT !.err = "not jailed"]
    ELSE IF ~HasJailType(s.jails[pid], jailType)
    THEN [s EXCEPT !.err = "not jailed with this type"]
    ELSE LET s1 == [s EXCEPT !.jails[pid] = RemoveJailType(@, jailType)]
             jail == s1.jails[pid]
             s2 == MoveToRemaining(s1, pid, jail.JailTypes, fails)
         IN [MoveChildren(s2, jail.Children, jail.JailTypes, fails) EXCEPT !.err = ""]

\* An unjailProcessSelective that drops the record of the last type without
\* restoring the children; C20 fails of it.
unjailProcessSelectiveRootOnly(s, jailType, pidStr, fails) ==
    LET pid == Atoi(pidStr) IN
    IF ~AtoiOk(pidStr) THEN [s EXCEPT !.err = "invalid PID"]
    ELSE IF pid \notin DOMAIN s.jails THEN [s EXCEPT !.err = "not jailed"]
    ELSE IF ~HasJailType(s.jails[pid], jailType)
    THEN [s EXCEPT !.err = "not jailed with this type"]
    ELSE IF Len(s.jails[pid].JailTypes) = 1
    THEN LET s1 == IF processExists(pid)
                   THEN restoreProcessCgroup(s, pid, s.jails[pid].OriginalCgroup, fails)
                   ELSE s
         IN [s1 EXCEPT !.jails = MapDelete(@, pid), !.err = ""]
    ELSE LET s1 == [s EXCEPT !.jails[pid] = RemoveJailType(@, jailType)]
             jail == s1.jails[pid]
             s2 == MoveToRemaining(s1, pid, jail.JailTypes, fails)
         IN [MoveChildren(s2, jail.Children, jail.JailTypes, fails) EXCEPT !.err = ""]

unjailProcessSelective(s, jailType, pidStr, fails) ==
    LET pid == Atoi(pidStr) IN
    IF ~AtoiOk(pidStr) THEN [s EXCEPT !.err = "invalid PID"]
    ELSE IF pid \notin DOMAIN s.jails THEN [s EXCEPT !.err = "not jailed"]
    ELSE IF ~HasJailType(s.jails[pid], jailType)
    THEN [s EXCEPT !.err = "not jailed with this type"]
    ELSE IF Len(s.jails[pid].JailTypes) = 1 THEN unjailProcess(s, pidStr, fails)
    ELSE LET s1 == [s EXCEPT !.jails[pid] = RemoveJailType(@, jailType)]
             jail == s1.jails[pid]
             s2 == MoveToRemaining(s1, pid, jail.JailTypes, fails)
         IN [MoveChildren(s2, jail.Children, jail.JailTypes, fails) EXCEPT !.err = ""]

\* An AliveChildren that skips the entry after one it removes; C9 fails of
\* it.
RECURSIVE AliveChildrenSkipping(_)
AliveChildrenSkipping(children) ==
    IF children = <<>> THEN <<>>
    ELSE IF processExists(Head(children))
         THEN <<Head(children)>> \o AliveChildrenSkipping(Tail(children))
         ELSE IF Tail(children) = <<>> THEN <<>>
              ELSE <<Head(Tail(children))>> \o AliveChildrenSkipping(Tail(Tail(children)))

\* A cleanupDeadProcesses that sweeps the roots only; C8 fails of it.
cleanupDeadProcessesRootsOnly(s) ==
    [s EXCEPT !.jails = [pid \in {p \in DOMAIN s.jails : processExists(p)} |-> s.jails[pid]],
              !.err = ""]

\* cleanupDeadProcesses (process.go): the children that still exist, in order.
RECURSIVE AliveChildren(_)
AliveChildren(children) ==
    IF children = <<>> THEN <<>>
    ELSE IF processExists(Head(children))
         THEN <<Head(children)>> \o AliveChildren(Tail(children))
         ELSE AliveChildren(Tail(children))

\* A cleanupDeadProcesses that keeps the record of a dead root while a child
\* of it lives; C18 fails of it.
cleanupDeadProcessesKeepingParents(s) ==
    LET deadProcesses == {pid \in DOMAIN s.jails :
                             ~processExists(pid) /\ AliveChildren(s.jails[pid].Children) = <<>>}
    IN [s EXCEPT !.jails = [pid \in DOMAIN s.jails \ deadProcesses |->
                               [s.jails[pid] EXCEPT !.Children = AliveChildren(@)]],
                 !.err = ""]

\* A cleanupDeadProcesses that puts the live children of a dead root back
\* into its OriginalCgroup; C24 fails of it.
cleanupDeadProcessesReleasing(s) ==
    LET deadProcesses == {pid \in DOMAIN s.jails : ~processExists(pid)}
        RECURSIVE Release(_, _)
        Release(st, todo) ==
            IF todo = {} THEN st
            ELSE LET pid == CHOOSE x \in todo : TRUE
                 IN Release(RestoreChildren(st, st.jails[pid].Children,
                                            st.jails[pid].OriginalCgroup, {}),
                            todo \ {pid})
        s1 == Release(s, deadProcesses)
    IN [s1 EXCEPT !.jails = [pid \in DOMAIN s.jails \ deadProcesses |->
                                [s.jails[pid] EXCEPT !.Children = AliveChildren(@)]],
                  !.log = s.log,
                  !.err = ""]

cleanupDeadProcesses(s) ==
    LET deadProcesses == {pid \in DOMAIN s.jails : ~processExists(pid)}
    IN [s EXCEPT !.jails = [pid \in DOMAIN s.jails \ deadProcesses |->
                               [s.jails[pid] EXCEPT !.Children = AliveChildren(@)]],
                 !.err = ""]

\* The rows of the listing: pid, jail types and len(jail.Children).
RECURSIVE SortedRows(_)
SortedRows(m) ==
    IF DOMAIN m = {} THEN <<>>
    ELSE LET pid == CHOOSE x \in DOMAIN m : \A y \in DOMAIN m : x <= y
         IN <<Event("row", pid, m[pid].JailTypes, TRUE, Len(m[pid].Children))>>
            \o SortedRows(MapDelete(m, pid))

\* A listJails that prints the records as they are; C19 fails of it.
listJailsUnswept(s) == [s EXCEPT !.log = @ \o SortedRows(s.jails), !.err = ""]

\* listJails: the sweep, then one row per record.
listJails(s) ==
    LET s1 == cleanupDeadProcesses(s)
    IN [s1 EXCEPT !.log = @ \o SortedRows(s1.jails)]

\* cleanup, lines 558-564: the loop over ActiveJails, in the order the map
\* iteration yields the keys.
RECURSIVE UnjailAll(_, _, _)
UnjailAll(s, order, fails) ==
    IF order = <<>> THEN s
    ELSE UnjailAll(unjailProcess(s, Itoa(Head(order)), fails), Tail(order), fails)

\* A cleanup that tears the filter down before the records are unjailed; C15
\* fails of it.
cleanupFilterFirst(s, order, fails) ==
    IF Cardinality(DOMAIN s.jails) = 0 THEN s
    ELSE cleanupCgroup(UnjailAll(cleanupNetworkJail(s, fails), order, fails))

cleanup(s, order, fails) ==
    IF Cardinality(DOMAIN s.jails) = 0 THEN s
    ELSE cleanupCgroup(cleanupNetworkJail(UnjailAll(s, order, fails), fails))

(***************************************************************************)
(* The state machine.                                                      *)
(***************************************************************************)
\* The goroutines that call cleanup: main (the exit command, end of input)
\* and the signal goroutine.
Threads == {"main", "sig"}

\* A thread that has not called cleanup.  pc is the statement of cleanup it
\* stands at, seen the keys its range loop has yielded, fails the
\* operations the host refuses it.
NotDown == [pc |-> "idle", seen |-> {}, fails |-> {}]

NoCall == [pid |-> 0, jailType |-> "", originalCgroup |-> NoCgroup,
           descendants |-> <<>>, now |-> 0]

EmptyMap == [x \in {} |-> NoCall]

\* The state a command runs in.  clock counts the records it creates, log
\* collects its file-system and firewall operations, in order.
Cur == [jails |-> jails, loc |-> loc, dirs |-> dirs, fw |-> fw, moved |-> moved,
        clock |-> clock, log |-> <<>>, err |-> "", first |-> "unread"]

\* The hierarchies the first line of /proc/<pid>/cgroup can name: the kernel
\* lists them by the order they were mounted in.
FirstLines == Hierarchies(version)

\* The state a command that reads /proc/<pid>/cgroup runs in.
CurFirst(first) == [Cur EXCEPT !.first = first]

\* The state a command leaves.
Commit(r) ==
    /\ jails' = r.jails
    /\ loc' = r.loc
    /\ dirs' = r.dirs
    /\ fw' = r.fw
    /\ moved' = r.moved
    /\ clock' = r.clock

\* The inputs of the command line.
PidInputs == {Itoa(n) : n \in Pids} \cup {"abc"}

TypeInputs == {"network", "cpu", "n", "c", "both", "mem"}

\* strings.ToLower and normalizeJailType applied to the type argument.
JailTypeArgs == {normalizeJailType(a) : a \in TypeInputs}

\* The places the run r of a command wrote at, or made a directory or tore
\* the firewall down at.
Attempted(r) ==
    {<<r.log[i].pid, IF r.log[i].op = "write" THEN FailPoint(r.log[i].path) ELSE r.log[i].op>> :
        i \in {k \in 1..Len(r.log) : r.log[k].op \in {"write", "mkdir", "fwdown", "proc"}}}

\* The refusals one command can meet: at most MaxFail of the operations it
\* attempts when none is refused (a refusal makes it attempt fewer, never
\* others).
FailSets(r) == {F \in SUBSET Attempted(r) : Cardinality(F) <= MaxFail}

\* The commands of a behaviour meet no refusal; the properties of a command
\* are stated over FailSets, at every state the behaviours reach.
NoRefusal == {}

\* The pids of the records: the roots and their children.
Tracked == DOMAIN jails \cup UNION {Range(jails[p].Children) : p \in DOMAIN jails}

Perms(S) ==
    {f \in [1..Cardinality(S) -> S] : \A i, j \in 1..Cardinality(S) : f[i] = f[j] => i = j}

Idle == phase = "running" /\ inflight = NoCall /\ down["main"].pc = "idle"

\* executeCommand, case "jail".
executeJail(s, jailType, pidStr, fails) ==
    LET s1 == jailProcess(s, "network", pidStr, fails)
    IN IF jailType = "both"
       THEN IF s1.err # "" THEN s1 ELSE jailProcess(s1, "cpu", pidStr, fails)
       ELSE jailProcess(s, jailType, pidStr, fails)

\* executeCommand, case "unjail".
executeUnjail(s, jailType, pidStr, fails) ==
    IF jailType = "" THEN unjailProcess(s, pidStr, fails)
    ELSE unjailProcessSelective(s, jailType, pidStr, fails)

Frame == UNCHANGED <<version, alive, ppid, phase, inflight, scan, down>>

ExecJail ==
    /\ Idle
    /\ \E typeArg \in JailTypeArgs, pidStr \in PidInputs, first \in FirstLines :
         LET r == executeJail(CurFirst(first), typeArg, pidStr, NoRefusal)
         IN /\ r.clock <= MaxJails
            /\ Commit(r)
    /\ Frame

ExecUnjail ==
    /\ Idle
    /\ \E typeArg \in JailTypeArgs \cup {""}, pidStr \in PidInputs :
         Commit(executeUnjail(Cur, typeArg, pidStr, NoRefusal))
    /\ Frame

\* executeCommand, case "list".
ExecList ==
    /\ Idle
    /\ Commit(listJails(Cur))
    /\ Frame

\* executeCommand, case "exit", and main's cleanup after the loop (EOF):
\* cleanup, then the process ends.
ExecExit ==
    /\ Idle
    /\ \E order \in Perms(DOMAIN jails) : Commit(cleanup(Cur, order, NoRefusal))
    /\ phase' = "exited"
    /\ UNCHANGED <<version, alive, ppid, inflight, scan, down>>

\* The signal goroutine: cleanup, then os.Exit(0), wherever the command
\* loop stands.
Signal ==
    /\ phase = "running"
    /\ \E order \in Perms(DOMAIN jails) : Commit(cleanup(Cur, order, NoRefusal))
    /\ phase' = "exited"
    /\ UNCHANGED <<version, alive, ppid, inflight, scan, down>>

(***************************************************************************)
(* The other processes of the host.                                        *)
(***************************************************************************)
EnvFrame == UNCHANGED <<version, dirs, fw, jails, clock, phase, inflight, scan, down>>

DeadLoc == [h \in Hierarchies(version) |-> NoCgroup]

\* A pid no process has had yet.
Unborn == [h \in Hierarchies(version) |-> <<"?">>]

\* A process exits: its children are reparented to init.
Kill ==
    /\ phase = "running"
    /\ \E p \in alive :
         /\ alive' = alive \ {p}
         /\ ppid' = [c \in Pids |-> IF c = p \/ ppid[c] = p THEN 0 ELSE ppid[c]]
         /\ loc' = [loc EXCEPT ![p] = DeadLoc]
         /\ moved' = moved \ {p}
    /\ EnvFrame

\* A process forks.  The child gets the next free pid and starts in the
\* cgroups of its parent; a parent that is in no jail may start it in a
\* scope of its own (systemd-run, a session manager).
Fork ==
    /\ phase = "running"
    /\ \E p \in alive, c \in Pids :
         /\ \A q \in Pids : loc[q] # Unborn => q < c
         /\ c = 1 + Cardinality({q \in Pids : loc[q] # Unborn})
         /\ alive' = alive \cup {c}
         /\ ppid' = [ppid EXCEPT ![c] = p]
         /\ \E own \in BOOLEAN :
              /\ own => \A h \in Hierarchies(version) : ~IsJailCgroup(loc[p][h])
              /\ loc' = [loc EXCEPT ![c] =
                            IF own THEN [h \in Hierarchies(version) |-> <<"system.slice">>]
                            ELSE loc[p]]
    /\ moved' = moved
    /\ EnvFrame

Init ==
    /\ version \in {1, 2}
    /\ alive = {1}
    /\ ppid = [p \in Pids |-> 0]
    /\ loc = [p \in Pids |-> IF p = 1 THEN [h \in Hierarchies(version) |-> <<"user.slice">>]
                             ELSE Unborn]
    /\ dirs = InitialDirs(version)
    /\ fw = TRUE
    /\ jails = EmptyMap
    /\ moved = {}
    /\ clock = 0
    /\ phase = "running"
    /\ inflight = NoCall
    /\ scan = ScanIdle
    /\ down = [t \in Threads |-> NotDown]

Next ==
    \/ ExecJail
    \/ ExecUnjail
    \/ ExecList
    \/ ExecExit
    \/ Kill
    \/ Fork

Spec == Init /\ [][Next]_vars

(***************************************************************************)
(* The command loop and the signal goroutine.  main starts the goroutine   *)
(* before the loop and nothing orders the two: jailProcess is split        *)
(* where it has moved the root and holds the record in its locals.         *)
(***************************************************************************)
\* jailProcess up to line 380, for a pid that has no record.
JailBegin ==
    /\ Idle
    /\ \E jailType \in {"network", "cpu"}, pid \in Pids \ DOMAIN jails, first \in FirstLines :
         LET r == JailStart(CurFirst(first), jailType, pid, NoRefusal)
         IN /\ r.st.err = ""
            /\ r.st.clock < MaxJails
            /\ Commit(r.st)
            /\ inflight' = r.l
    /\ UNCHANGED <<version, alive, ppid, phase, scan, down>>

\* jailProcess from line 382 to its return.
JailEnd ==
    /\ phase = "running"
    /\ inflight # NoCall
    /\ Commit(JailFinish(Cur, inflight, NoRefusal))
    /\ inflight' = NoCall
    /\ UNCHANGED <<version, alive, ppid, phase, scan, down>>

NextSig ==
    \/ Next
    \/ JailBegin
    \/ JailEnd
    \/ Signal

SpecSig == Init /\ [][NextSig]_vars

(***************************************************************************)
(* getAllDescendants, one getProcessChildren at a time, against a process  *)
(* table that changes between the reads.                                   *)
(***************************************************************************)
ScanFrame == UNCHANGED <<version, loc, dirs, fw, jails, moved, clock, phase, inflight, down>>

ScanBegin ==
    /\ ~scan.active
    /\ \E pid \in Pids, procOk \in BOOLEAN : scan' = ScanStart(pid, procOk)
    /\ UNCHANGED <<alive, ppid>>
    /\ ScanFrame

ScanAdvance ==
    /\ scan.active
    /\ ~ScanDone(scan)
    /\ \E procOk \in BOOLEAN : scan' = ScanStep(scan, procOk)
    /\ UNCHANGED <<alive, ppid>>
    /\ ScanFrame

ScanReturn ==
    /\ scan.active
    /\ ScanDone(scan)
    /\ scan' = [scan EXCEPT !.active = FALSE]
    /\ UNCHANGED <<alive, ppid>>
    /\ ScanFrame

\* A process exits; its children are reparented.
ScanKill ==
    /\ \E p \in alive :
         /\ alive' = alive \ {p}
         /\ ppid' = [c \in Pids |-> IF c = p \/ ppid[c] = p THEN 0 ELSE ppid[c]]
    /\ UNCHANGED scan
    /\ ScanFrame

\* A process forks; the kernel may give the child the pid of a process
\* that has exited.
ScanFork ==
    /\ \E p \in alive, c \in Pids \ alive :
         /\ alive' = alive \cup {c}
         /\ ppid' = [ppid EXCEPT ![c] = p]
    /\ UNCHANGED scan
    /\ ScanFrame

NextScan ==
    \/ ScanBegin
    \/ ScanAdvance
    \/ ScanReturn
    \/ ScanKill
    \/ ScanFork

\* The goroutine that runs the scan is scheduled until it returns.
SpecScan ==
    /\ Init
    /\ [][NextScan]_vars
    /\ WF_vars(ScanAdvance)
    /\ WF_vars(ScanReturn)

(***************************************************************************)
(* The shutdown, one statement of cleanup at a time.  The exit command and *)
(* the end of input make main call cleanup, a signal makes the signal      *)
(* goroutine call it; nothing keeps the one from starting while the other  *)
(* is inside.  The host refuses the operations of fails, every time they   *)
(* are tried, to the one thread as to the other.                           *)
(***************************************************************************)
\* cleanup, lines 552-554: where the call stands after the test of
\* len(state.ActiveJails).
cleanupEntry(s) == IF Cardinality(DOMAIN s.jails) = 0 THEN "done" ELSE "unjail"

\* A cleanup that tears the filter down again until it is down; C16 fails
\* of it.
afterTeardownRetrying(r) == IF r.fw THEN "unjail" ELSE "reclaim"

\* cleanup, lines 566-570: the error of cleanupNetworkJail is printed and
\* cleanupCgroup follows.
afterTeardown(r) == "reclaim"

DownFrame == UNCHANGED <<version, alive, ppid, inflight, scan>>

\* The exit command or the end of input (main), SIGINT or SIGTERM (sig):
\* the thread calls cleanup.
CleanupBegin(t) ==
    /\ phase = "running"
    /\ down[t].pc = "idle"
    /\ t = "main" => Idle
    /\ \E order \in Perms(DOMAIN jails) :
         \E fails \in FailSets(cleanup(Cur, order, NoRefusal)) :
             /\ \A u \in Threads : down[u].pc # "idle" => fails = down[u].fails
             /\ down' = [down EXCEPT ![t] = [pc |-> cleanupEntry(Cur), seen |-> {},
                                             fails |-> fails]]
    /\ UNCHANGED <<loc, dirs, fw, jails, moved, clock, phase>>
    /\ DownFrame

\* One round of the range loop: unjailProcess of a key the loop has not
\* yielded yet.
CleanupUnjail(t) ==
    /\ phase = "running"
    /\ down[t].pc = "unjail"
    /\ \E pid \in DOMAIN jails \ down[t].seen :
         /\ Commit(unjailProcess(Cur, Itoa(pid), down[t].fails))
         /\ down' = [down EXCEPT ![t].seen = @ \cup {pid}]
    /\ UNCHANGED phase
    /\ DownFrame

\* The loop is over: cleanupNetworkJail.
CleanupFilter(t) ==
    /\ phase = "running"
    /\ down[t].pc = "unjail"
    /\ DOMAIN jails \ down[t].seen = {}
    /\ LET r == cleanupNetworkJail(Cur, down[t].fails)
       IN /\ Commit(r)
          /\ down' = [down EXCEPT ![t].pc = afterTeardown(r)]
    /\ UNCHANGED phase
    /\ DownFrame

\* cleanupCgroup, and cleanup returns.
CleanupReclaim(t) ==
    /\ phase = "running"
    /\ down[t].pc = "reclaim"
    /\ Commit(cleanupCgroup(Cur))
    /\ down' = [down EXCEPT ![t].pc = "done"]
    /\ UNCHANGED phase
    /\ DownFrame

\* os.Exit(0) after cleanup, or the return from main.
CleanupExit(t) ==
    /\ phase = "running"
    /\ down[t].pc = "done"
    /\ phase' = "exited"
    /\ UNCHANGED <<loc, dirs, fw, jails, moved, clock, down>>
    /\ DownFrame

\* Both threads are inside the range loop over ActiveJails: the runtime may
\* find the map written while it is iterated and end the program with a
\* fatal error.
CleanupCrash ==
    /\ phase = "running"
    /\ \A t \in Threads : down[t].pc = "unjail"
    /\ phase' = "exited"
    /\ UNCHANGED <<loc, dirs, fw, jails, moved, clock, down>>
    /\ DownFrame

\* The program starts on a host where process 1 has a child, process 2.
InitDown ==
    /\ version \in {1, 2}
    /\ alive = {1, 2}
    /\ ppid = [p \in Pids |-> IF p = 2 THEN 1 ELSE 0]
    /\ loc = [p \in Pids |-> IF p \in {1, 2}
                             THEN [h \in Hierarchies(version) |-> <<"user.slice">>]
                             ELSE Unborn]
    /\ dirs = InitialDirs(version)
    /\ fw = TRUE
    /\ jails = EmptyMap
    /\ moved = {}
    /\ clock = 0
    /\ phase = "running"
    /\ inflight = NoCall
    /\ scan = ScanIdle
    /\ down = [t \in Threads |-> NotDown]

NextDown ==
    \/ ExecJail
    \/ ExecList
    \/ Kill
    \/ \E t \in Threads : CleanupBegin(t)
    \/ \E t \in Threads : CleanupUnjail(t)
    \/ \E t \in Threads : CleanupFilter(t)
    \/ \E t \in Threads : CleanupReclaim(t)
    \/ \E t \in Threads : CleanupExit(t)
    \/ CleanupCrash

\* Weak fairness of CleanupUnjail(t), its enabling condition written out:
\* the action is enabled when t is in the loop and a key is left.
LoopFair(t) ==
    \/ []<>~(phase = "running" /\ down[t].pc = "unjail" /\ DOMAIN jails \ down[t].seen # {})
    \/ []<><<CleanupUnjail(t)>>_vars

\* Weak fairness of CleanupReclaim(t), written likewise: the action is
\* enabled when t stands before cleanupCgroup.
ReclaimFair(t) ==
    \/ []<>~(phase = "running" /\ down[t].pc = "reclaim")
    \/ []<><<CleanupReclaim(t)>>_vars

\* A thread that is inside cleanup is scheduled until the program exits.
SpecDown ==
    /\ InitDown
    /\ [][NextDown]_vars
    /\ \A t \in Threads :
         /\ LoopFair(t)
         /\ WF_vars(CleanupFilter(t))
         /\ ReclaimFair(t)
         /\ WF_vars(CleanupExit(t))

(***************************************************************************)
(* The methods of Jail on their own: a Jail made with no type, to which    *)
(* AddJailType and RemoveJailType are applied with any type string.        *)
(***************************************************************************)
\* The strings the methods are called with.
TypeNames == {"network", "cpu", "memory", "pids", "io"}

InitTypes ==
    /\ version = 2
    /\ alive = {1}
    /\ ppid = [p \in Pids |-> 0]
    /\ loc = [p \in Pids |-> IF p = 1 THEN [h \in Hierarchies(version) |-> <<"user.slice">>]
                             ELSE Unborn]
    /\ dirs = InitialDirs(version)
    /\ fw = TRUE
    /\ jails = [p \in {1} |-> [PID |-> 1, OriginalCgroup |-> <<"user.slice">>,
                               JailTypes |-> <<>>, Timestamp |-> 0, Children |-> <<>>]]
    /\ moved = {}
    /\ clock = 1
    /\ phase = "running"
    /\ inflight = NoCall
    /\ scan = ScanIdle
    /\ down = [t \in Threads |-> NotDown]

TypesFrame ==
    UNCHANGED <<version, alive, ppid, loc, dirs, fw, moved, clock, phase, inflight, scan, down>>

\* jail.AddJailType(jailType)
TypeAdd ==
    /\ \E jailType \in TypeNames : jails' = [jails EXCEPT ![1] = AddJailType(@, jailType)]
    /\ TypesFrame

\* jail.RemoveJailType(jailType)
TypeRemove ==
    /\ \E jailType \in TypeNames : jails' = [jails EXCEPT ![1] = RemoveJailType(@, jailType)]
    /\ TypesFrame

NextTypes ==
    \/ TypeAdd
    \/ TypeRemove

SpecTypes == InitTypes /\ [][NextTypes]_vars

(***************************************************************************)
(* The CPU limit that initializeCgroup writes before the command loop      *)
(* starts.  A file content is the sequence of its characters; the kernel   *)
(* reads the decimal numbers in it.                                        *)
(***************************************************************************)
cpuPeriod == <<"1", "0", "0", "0", "0", "0", "\n">>

cpuQuota == <<"1", "0", "0", "0", "\n">>

\* setupCpuLimitV2: cpuLimit, the content of cpu.max, "quota period".
cpuLimit == <<"1", "0", "0", "0", "0", " ", "1", "0", "0", "0", "0", "0", "\n">>

Digits == <<"0", "1", "2", "3", "4", "5", "6", "7", "8", "9">>

DigitValue(c) == (CHOOSE i \in 1..Len(Digits) : Digits[i] = c) - 1

\* The number the kernel reads from the leading digits of str.
RECURSIVE ParseFrom(_, _)
ParseFrom(str, acc) ==
    IF str = <<>> \/ Head(str) \notin Range(Digits) THEN acc
    ELSE ParseFrom(Tail(str), acc * (Len(Digits)) + DigitValue(Head(str)))

ParseDecimal(str) == ParseFrom(str, 0)

\* What follows the first blank of str.
RECURSIVE AfterBlank(_)
AfterBlank(str) ==
    IF str = <<>> THEN <<>>
    ELSE IF Head(str) = " " THEN Tail(str)
    ELSE AfterBlank(Tail(str))

\* setupCpuLimitV2: the one file written, cpu.max of CpuCgroupPath.
setupCpuLimitV2 ==
    [f \in {<<CpuCgroupPath(2), "cpu.max">>} |-> cpuLimit]

\* setupCpuLimitV1: period and quota of CpuCgroupPath, then of
\* NetworkCpuCgroupPath.
setupCpuLimitV1 ==
    [f \in {CpuCgroupPath(1), NetworkCpuCgroupPath(1)}
             \X {"cpu.cfs_period_us", "cpu.cfs_quota_us"} |->
        IF f[2] = "cpu.cfs_period_us" THEN cpuPeriod ELSE cpuQuota]

\* The files a successful initializeCgroup has written.
CpuLimitFiles == IF version = 2 THEN setupCpuLimitV2 ELSE setupCpuLimitV1

\* The directories whose processes the kernel throttles.
ThrottledDirs == {f[1] : f \in DOMAIN CpuLimitFiles}

\* The quota and the period, in microseconds, the kernel enforces in fs.
CpuQuotaOf(fs) ==
    IF version = 2 THEN ParseDecimal(CpuLimitFiles[<<fs, "cpu.max">>])
    ELSE ParseDecimal(CpuLimitFiles[<<fs, "cpu.cfs_quota_us">>])

CpuPeriodOf(fs) ==
    IF version = 2 THEN ParseDecimal(AfterBlank(CpuLimitFiles[<<fs, "cpu.max">>]))
    ELSE ParseDecimal(CpuLimitFiles[<<fs, "cpu.cfs_period_us">>])

(***************************************************************************)
(* Properties.  The property of a command is stated at every reachable     *)
(* state, over the inputs of the command and the refusals it can meet.     *)
(***************************************************************************)
\* The state the next command runs in, the process table unchanged.
Again(r) == [r EXCEPT !.log = <<>>, !.err = ""]

\* Whether the kernel has pid in the cgroup of directory fs.
Resident(s, pid, fs) == s.loc[pid][HierOf(version, fs)] = CgroupOf(version, fs)

\* Whether pid is in a jail cgroup of some hierarchy.
InJail(s, pid) == \E h \in Hierarchies(version) : IsJailCgroup(s.loc[pid][h])

\* The indices of the cgroup.procs writes in the log of a command.
Writes(r) == {i \in 1..Len(r.log) : r.log[i].op = "write"}

\* C1: once cleanup has run and the program has exited, ActiveJails is
\* empty and every live process the program moved into a jail cgroup is
\* out of the jail cgroups again (no write is refused in the behaviours of
\* Spec, so no restore fails).
C1_ShutdownRestoresAll ==
    phase = "exited" =>
        /\ DOMAIN jails = {}
        /\ \A p \in moved \cap alive : ~InJail(Cur, p)

\* C2: the signal goroutine's cleanup never runs while a jailProcess call
\* has moved its root and not yet stored the record.
C2_ShutdownExcludesCommands == ~(phase = "exited" /\ inflight # NoCall)

\* C3: when jailProcess(pid, t) has succeeded, the same call again returns
\* the already-jailed error and leaves ActiveJails, the cgroups and the
\* directories as they were.
C3_JailTwiceRejected ==
    Idle =>
        \A pidStr \in PidInputs, jailType \in {"network", "cpu"}, first \in FirstLines :
            \A fails \in FailSets(jailProcess(CurFirst(first), jailType, pidStr, NoRefusal)) :
                LET r1 == jailProcess(CurFirst(first), jailType, pidStr, fails)
                    r2 == jailProcess(Again(r1), jailType, pidStr, fails)
                IN r1.err = "" =>
                       /\ r2.err = "already jailed"
                       /\ r2.jails = r1.jails
                       /\ r2.loc = r1.loc
                       /\ r2.dirs = r1.dirs
                       /\ r2.log = <<>>

\* C3's case: a record holds a type and the jail of that type is rejected.
C3_Witness ==
    /\ Idle
    /\ \E pid \in DOMAIN jails :
         /\ Len(jails[pid].JailTypes) = 2
         /\ jailProcess(Cur, jails[pid].JailTypes[2], Itoa(pid), NoRefusal).err
                = "already jailed"

\* The directories that realize a set of jail types.
CombinedPaths ==
    IF version = 2 THEN {NetworkCpuCgroupPath(2)}
    ELSE {NetworkCpuCgroupPath(1), <<"net_cls", JailNetworkCpuCgroup>>}

NetworkOnlyPaths ==
    IF version = 2 THEN {NetworkCgroupPath(2)}
    ELSE {<<"net_cls", "jail">>} \cup {<<Subsystems[i], JailNetworkCgroup>> : i \in 1..4}

CpuOnlyPaths == {CpuCgroupPath(version)}

\* The directory a process jailed for the network alone is written to.
NetworkJailPath == IF version = 2 THEN NetworkCgroupPath(2) ELSE <<"net_cls", "jail">>

TypeSet(j) == Range(j.JailTypes)

\* C4: where jail network of a pid has left a record holding network alone,
\* a jail cpu of the pid that succeeds leaves the one record holding
\* {network, cpu}, the root in every combined directory and in no
\* network-only or cpu-only directory.
C4_NetworkThenCpuCombined ==
    Idle =>
        \A pid \in DOMAIN jails :
            LET r == jailProcess(Cur, "cpu", Itoa(pid), NoRefusal)
            IN (jails[pid].JailTypes = <<"network">> /\ r.err = "") =>
                   /\ DOMAIN r.jails = DOMAIN jails
                   /\ TypeSet(r.jails[pid]) = {"network", "cpu"}
                   /\ \A fs \in CombinedPaths : Resident(r, pid, fs)
                   /\ \A fs \in NetworkOnlyPaths \cup CpuOnlyPaths : ~Resident(r, pid, fs)

\* C5: unjail cpu of a record holding {network, cpu} leaves {network}, and
\* the root and the live children are in no combined directory and in the
\* network-only directory.
C5_UnjailCpuLeavesNetwork ==
    Idle =>
        \A pid \in DOMAIN jails :
            LET r == unjailProcessSelective(Cur, "cpu", Itoa(pid), NoRefusal)
            IN TypeSet(jails[pid]) = {"network", "cpu"} =>
                   /\ r.err = ""
                   /\ pid \in DOMAIN r.jails
                   /\ TypeSet(r.jails[pid]) = {"network"}
                   /\ \A q \in ({pid} \cup Range(jails[pid].Children)) \cap alive :
                          /\ \A fs \in CombinedPaths : ~Resident(r, q, fs)
                          /\ Resident(r, q, NetworkJailPath)

\* The pids a command wrote to the first directory of a restore to
\* originalCgroup.
RestoreAttempts(r, originalCgroup) ==
    {r.log[i].pid : i \in {k \in Writes(r) :
        r.log[k].path = (IF version = 2 THEN originalCgroup
                         ELSE <<Subsystems[1]>> \o originalCgroup)}}

\* C6: unjailProcess of a record deletes it, whatever is refused, and
\* attempts the restore to OriginalCgroup of the root if it lives and of
\* every live child; the other records stay.
C6_FullUnjailAlwaysDeletes ==
    Idle =>
        \A pid \in DOMAIN jails :
            \A fails \in FailSets(unjailProcess(Cur, Itoa(pid), NoRefusal)) :
                LET r == unjailProcess(Cur, Itoa(pid), fails)
                IN /\ r.err = ""
                   /\ DOMAIN r.jails = DOMAIN jails \ {pid}
                   /\ \A other \in DOMAIN r.jails : r.jails[other] = jails[other]
                   /\ ({pid} \cup Range(jails[pid].Children)) \cap alive
                          \subseteq RestoreAttempts(r, jails[pid].OriginalCgroup)

\* C6's case: a restore is refused, a later one succeeds and the record
\* is gone.
C6_Witness ==
    /\ Idle
    /\ \E pid \in DOMAIN jails :
         \E fails \in FailSets(unjailProcess(Cur, Itoa(pid), NoRefusal)) :
            LET r == unjailProcess(Cur, Itoa(pid), fails)
            IN /\ pid \notin DOMAIN r.jails
               /\ \E i, k \in Writes(r) :
                     /\ i < k
                     /\ ~r.log[i].ok
                     /\ r.log[k].ok
                     /\ r.log[k].pid # r.log[i].pid
                     /\ r.log[k].pid \in Range(jails[pid].Children)

\* C7: "jail both <pid>" and "jail network <pid>" followed by "jail cpu
\* <pid>" leave the same jail types for the pid and the same cgroups.
C7_BothEqualsSequence ==
    Idle =>
        \A pidStr \in PidInputs, first \in FirstLines :
            LET both == executeJail(CurFirst(first), "both", pidStr, NoRefusal)
                r1 == executeJail(CurFirst(first), "network", pidStr, NoRefusal)
                r2 == executeJail([Again(r1) EXCEPT !.first = first], "cpu", pidStr, NoRefusal)
            IN /\ DOMAIN both.jails = DOMAIN r2.jails
               /\ \A pid \in DOMAIN both.jails :
                      /\ TypeSet(both.jails[pid]) = TypeSet(r2.jails[pid])
                      /\ both.jails[pid].Children = r2.jails[pid].Children
               /\ both.loc = r2.loc

\* The entries of children whose process lives, in order.
LiveOf(children) == SelectSeq(children, LAMBDA c : c \in alive)

\* The directories a restore to originalCgroup writes to.
RestorePaths(originalCgroup) ==
    IF version = 2 THEN {originalCgroup}
    ELSE {<<Subsystems[i]>> \o originalCgroup : i \in 1..Len(Subsystems)}

\* C8: jail network of a live root with no record stores a record holding
\* network and the root's live descendants as children; where a child of a
\* record has died, list leaves the live children; the unjail that follows
\* removes the record and writes, to the directories of OriginalCgroup
\* only, exactly the root and the children that live.
C8_JailSweepUnjailScenario ==
    Idle =>
        /\ \A pid \in alive \ DOMAIN jails, first \in FirstLines :
               LET r == jailProcess(CurFirst(first), "network", Itoa(pid), NoRefusal)
               IN /\ r.err = ""
                  /\ r.jails[pid].JailTypes = <<"network">>
                  /\ r.jails[pid].Children = getAllDescendants(pid, TRUE).descendants
        /\ \A pid \in DOMAIN jails \cap alive :
               LET l == listJails(Cur)
                   r == unjailProcess(Again(l), Itoa(pid), NoRefusal)
               IN /\ l.jails[pid].Children = LiveOf(jails[pid].Children)
                  /\ l.jails[pid].JailTypes = jails[pid].JailTypes
                  /\ pid \notin DOMAIN r.jails
                  /\ {r.log[i].pid : i \in Writes(r)}
                         = {pid} \cup Range(LiveOf(jails[pid].Children))
                  /\ \A i \in Writes(r) :
                         r.log[i].path \in RestorePaths(jails[pid].OriginalCgroup)

\* C8's case: a record holding network with two children of which one has
\* died and one lives.
C8_Witness ==
    /\ Idle
    /\ \E pid \in DOMAIN jails \cap alive :
         /\ jails[pid].JailTypes = <<"network">>
         /\ Len(jails[pid].Children) = 2
         /\ Len(LiveOf(jails[pid].Children)) = 1
         /\ Len(listJails(Cur).jails[pid].Children) = 1

\* C9: cleanupDeadProcesses run again on the map it left, the process table
\* unchanged, leaves that map.
C9_SweepIdempotent ==
    LET once == cleanupDeadProcesses(Cur)
    IN cleanupDeadProcesses(Again(once)).jails = once.jails

\* C9's case: the first sweep removes a record or children.
C9_Witness ==
    /\ Idle
    /\ cleanupDeadProcesses(Cur).jails # jails
    /\ \E pid \in DOMAIN jails \cap alive : Len(LiveOf(jails[pid].Children)) < Len(jails[pid].Children)

\* The scan expands no pid twice, and fails only where its first read of
\* /proc fails.
ScanOnce ==
    /\ \A i, k \in 1..Len(scan.expanded) : scan.expanded[i] = scan.expanded[k] => i = k
    /\ Range(scan.expanded) = scan.visited
    /\ scan.err # "" => scan.expanded = <<scan.root>> /\ scan.descendants = <<>>

\* C10: whatever exits and forks happen between its reads of /proc,
\* getAllDescendants expands each pid at most once, returns, and returns an
\* error only where its first read of /proc fails.
C10_ScanTerminates == []ScanOnce /\ (scan.active ~> ~scan.active)

\* C10's case: a scan has returned, without error, a list that holds its own
\* root: the root's pid was given to a descendant while the scan ran.
C10_Witness ==
    /\ ~scan.active
    /\ scan.err = ""
    /\ scan.root \in Range(scan.descendants)

\* The directories that back a set of jail types.
BackingPaths(types) ==
    IF types = {"network", "cpu"} THEN CombinedPaths
    ELSE IF types = {"cpu"} THEN CpuOnlyPaths
    ELSE IF types = {"network"} THEN {NetworkJailPath}
    ELSE {}

\* The directories the program writes jailed pids to.
JailPaths == CombinedPaths \cup CpuOnlyPaths \cup NetworkOnlyPaths

\* C11: between commands, the live root and the live children of every
\* record are in every directory that backs the record's jail types and in
\* no other jail directory.
C11_ResidencyMatchesTypes ==
    Idle =>
        \A pid \in DOMAIN jails :
            \A q \in ({pid} \cup Range(jails[pid].Children)) \cap alive :
                \A fs \in JailPaths :
                    Resident(Cur, q, fs) <=> fs \in BackingPaths(TypeSet(jails[pid]))

\* C12: no record holds an empty JailTypes, and unjailProcessSelective of
\* the only type of a record deletes the record.
C12_TypesNeverEmpty ==
    /\ \A pid \in DOMAIN jails : jails[pid].JailTypes # <<>>
    /\ Idle =>
           \A pid \in DOMAIN jails, jailType \in JailTypeArgs :
               \A fails \in FailSets(unjailProcessSelective(Cur, jailType, Itoa(pid), NoRefusal)) :
                   LET r == unjailProcessSelective(Cur, jailType, Itoa(pid), fails)
                   IN /\ \A q \in DOMAIN r.jails : r.jails[q].JailTypes # <<>>
                      /\ TypeSet(jails[pid]) = {jailType} => pid \notin DOMAIN r.jails

\* C12's case: a record holds one type, and the unjail of that type
\* removes the record.
C12_Witness ==
    /\ Idle
    /\ \E pid \in DOMAIN jails :
         /\ Len(jails[pid].JailTypes) = 1
         /\ pid \notin DOMAIN
                unjailProcessSelective(Cur, jails[pid].JailTypes[1], Itoa(pid), NoRefusal).jails

\* C13: a rejected call leaves ActiveJails as it was: a pid that is no
\* number, a jail type other than network and cpu, a jail of a type the
\* record holds, a jail of a pid that does not exist, an unjail of a pid
\* without record, an unjail of a type the record lacks.
C13_RejectionsKeepRegistry ==
    Idle =>
        \A pidStr \in PidInputs, jailType \in JailTypeArgs, first \in FirstLines :
            LET pid == Atoi(pidStr)
                known == AtoiOk(pidStr) /\ pid \in DOMAIN jails
                j == jailProcess(CurFirst(first), jailType, pidStr, NoRefusal)
                u == unjailProcess(Cur, pidStr, NoRefusal)
                us == unjailProcessSelective(Cur, jailType, pidStr, NoRefusal)
            IN /\ (\/ ~AtoiOk(pidStr)
                   \/ jailType \notin {"network", "cpu"}
                   \/ known /\ HasJailType(jails[pid], jailType)
                   \/ ~processExists(pid))
                      => j.err # "" /\ j.jails = jails
               /\ ~known => u.err # "" /\ u.jails = jails
               /\ (~known \/ ~HasJailType(jails[pid], jailType))
                      => us.err # "" /\ us.jails = jails

\* The directories a command passed to cleanupEmptyCgroup.
ReclaimedPaths(r) ==
    {r.log[i].path : i \in {k \in 1..Len(r.log) : r.log[k].op \in {"rmdir", "reclaim"}}}

\* The directories initializeCgroup makes.
InitializedDirs ==
    IF version = 2
    THEN {NetworkCgroupPath(2), CpuCgroupPath(2), NetworkCpuCgroupPath(2)}
    ELSE {<<Subsystems[i], JailNetworkCgroup>> : i \in 1..Len(Subsystems)}
         \cup {<<"cpu", JailCpuCgroup>>, <<"cpu", JailNetworkCpuCgroup>>}

\* The indices of the firewall teardowns in the log of a command.
Teardowns(r) == {i \in 1..Len(r.log) : r.log[i].op = "fwdown"}

\* C14: every run of cleanup, whatever ActiveJails holds and whichever
\* restore or teardown is refused, calls cleanupNetworkJail and passes every
\* directory made at initialization to cleanupEmptyCgroup; once the program
\* has exited the filter is down.
C14_ShutdownAlwaysAllSteps ==
    /\ phase = "exited" => ~fw
    /\ Idle =>
           \A order \in Perms(DOMAIN jails) :
               \A fails \in FailSets(cleanup(Cur, order, NoRefusal)) :
                   LET r == cleanup(Cur, order, fails)
                   IN /\ Teardowns(r) # {}
                      /\ InitializedDirs \subseteq ReclaimedPaths(r)

\* C15: in a run of cleanup over a non-empty ActiveJails the log is the log
\* of the unjailProcess calls of every record, then one firewall teardown,
\* then the cleanupEmptyCgroup calls; no record is left when the teardown
\* starts.
C15_ShutdownOrder ==
    Idle =>
        \A order \in Perms(DOMAIN jails) :
            \A fails \in FailSets(cleanup(Cur, order, NoRefusal)) :
                LET r == cleanup(Cur, order, fails)
                    u == UnjailAll(Cur, order, fails)
                IN DOMAIN jails # {} =>
                       /\ DOMAIN u.jails = {}
                       /\ \E k \in 1..Len(r.log) :
                            /\ Teardowns(r) = {k}
                            /\ SubSeq(r.log, 1, k - 1) = u.log
                            /\ \A i \in 1..(k - 1) : r.log[i].op = "write"
                            /\ \A i \in (k + 1)..Len(r.log) : r.log[i].op \in {"rmdir", "reclaim"}
                            /\ \A pid \in DOMAIN jails \cap alive :
                                 \E i \in 1..(k - 1) : r.log[i].pid = pid
                            /\ ReclaimedPaths(r) # {}

\* C15's case: the program has exited through a cleanup that restored a
\* process, tore the filter down and removed a jail directory.
C15_Witness ==
    /\ phase = "exited"
    /\ ~fw
    /\ dirs # InitialDirs(version)
    /\ \E p \in moved \cap alive : ~InJail(Cur, p)

\* C18: cleanupDeadProcesses leaves the records whose root exists and no
\* other, each with its children that exist, in their order, and its other
\* fields as they were; it writes to no cgroup.procs, so the live children
\* of a removed record stay where they are.
C18_SweepKeepsExisting ==
    Idle =>
        LET r == cleanupDeadProcesses(Cur)
        IN /\ DOMAIN r.jails = DOMAIN jails \cap alive
           /\ \A pid \in DOMAIN r.jails :
                  r.jails[pid] = [jails[pid] EXCEPT !.Children = LiveOf(@)]
           /\ r.log = <<>>
           /\ r.loc = loc
           /\ r.dirs = dirs

\* C18's case: the sweep removes the record of a dead root that has a live
\* child in a jail cgroup.
C18_Witness ==
    /\ Idle
    /\ \E pid \in DOMAIN jails \ alive :
         /\ \E c \in Range(jails[pid].Children) \cap alive : InJail(Cur, c)
         /\ pid \notin DOMAIN cleanupDeadProcesses(Cur).jails

\* The indices of the rows in the log of a listing.
Rows(r) == {i \in 1..Len(r.log) : r.log[i].op = "row"}

\* C19: listJails prints one row for each record whose root exists and for
\* no other, and the child count of a row is the number of children of the
\* record that exist.
C19_ListSweepsFirst ==
    Idle =>
        LET l == listJails(Cur)
        IN /\ {l.log[i].pid : i \in Rows(l)} = DOMAIN jails \cap alive
           /\ Cardinality(Rows(l)) = Cardinality(DOMAIN jails \cap alive)
           /\ \A i \in Rows(l) :
                  l.log[i].n = Len(LiveOf(jails[l.log[i].pid].Children))

\* C19's case: a listing whose sweep has something to remove, a dead root
\* or a dead child of a live root.
C19_Witness ==
    /\ Idle
    /\ \/ DOMAIN jails \ alive # {} /\ Rows(listJails(Cur)) = {}
       \/ \E i \in Rows(listJails(Cur)) :
              listJails(Cur).log[i].n < Len(jails[listJails(Cur).log[i].pid].Children)

\* C20: unjailProcessSelective of the only type of a record does what
\* unjailProcess does, whichever writes are refused: the record is deleted,
\* the root and the children that exist are written to the directories of
\* OriginalCgroup and to no other, and a process whose write succeeded is in
\* OriginalCgroup.
C20_LastTypeIsFullUnjail ==
    Idle =>
        \A pid \in DOMAIN jails, jailType \in JailTypeArgs :
            TypeSet(jails[pid]) = {jailType} =>
                \A fails \in FailSets(unjailProcess(Cur, Itoa(pid), NoRefusal)) :
                    LET us == unjailProcessSelective(Cur, jailType, Itoa(pid), fails)
                        u == unjailProcess(Cur, Itoa(pid), fails)
                    IN /\ us = u
                       /\ us.err = ""
                       /\ pid \notin DOMAIN us.jails
                       /\ {us.log[i].pid : i \in Writes(us)}
                              = ({pid} \cup Range(jails[pid].Children)) \cap alive
                       /\ \A i \in Writes(us) :
                              /\ us.log[i].path \in RestorePaths(jails[pid].OriginalCgroup)
                              /\ us.log[i].ok => Resident(us, us.log[i].pid, us.log[i].path)

\* C20's case: a record with one type, a live root and a live child, which
\* the unjail of that type deletes.
C20_Witness ==
    /\ Idle
    /\ \E pid \in DOMAIN jails \cap alive :
         /\ Len(jails[pid].JailTypes) = 1
         /\ Range(jails[pid].Children) \cap alive # {}
         /\ pid \notin DOMAIN unjailProcessSelective(Cur, jails[pid].JailTypes[1],
                                                    Itoa(pid), NoRefusal).jails

\* The threads that have called cleanup.
InCleanup == {t \in Threads : down[t].pc # "idle"}

\* C16: the program exits only after a thread has called cleanup, and once
\* main (exit command, end of input) or the signal goroutine has called it
\* the program exits, whatever ActiveJails holds and whichever restore or
\* teardown the host refuses.
C16_ShutdownTerminates ==
    /\ [](phase = "exited" => InCleanup # {})
    /\ (InCleanup # {}) ~> (phase = "exited")

\* C16's case: the program has exited through the signal goroutine's
\* cleanup, which unjailed a record and whose filter teardown was refused.
C16_Witness ==
    /\ phase = "exited"
    /\ down["sig"].pc = "done"
    /\ down["main"].pc = "idle"
    /\ down["sig"].seen # {}
    /\ fw

\* C17: cleanup never runs concurrently with itself: no two threads are
\* inside its range loop or between its filter teardown and its return at
\* once.
C17_TeardownAtMostOnce ==
    Cardinality({t \in Threads : down[t].pc \in {"unjail", "reclaim"}}) <= 1

\* Whether no entry of the sequence occurs twice.
NoDuplicate(seq) == \A i, k \in 1..Len(seq) : seq[i] = seq[k] => i = k

\* C21: on every Jail the methods build, for all type strings t and u:
\* JailTypes holds no type twice; AddJailType(t) of a Jail that has t leaves
\* it as it is, and done twice is as done once; after AddJailType(t) the Jail
\* has u exactly when u = t or it had u; after RemoveJailType(t) it has u
\* exactly when u # t and it had u, and the other types keep their order.
C21_TypeSetOperations ==
    \A pid \in DOMAIN jails :
        LET j == jails[pid]
        IN /\ NoDuplicate(j.JailTypes)
           /\ \A t \in TypeNames :
                  LET a == AddJailType(j, t)
                      r == RemoveJailType(j, t)
                  IN /\ HasJailType(j, t) => a = j
                     /\ AddJailType(a, t) = a
                     /\ NoDuplicate(a.JailTypes)
                     /\ r.JailTypes = SelectSeq(j.JailTypes, LAMBDA x : x # t)
                     /\ \A u \in TypeNames :
                            /\ HasJailType(a, u) <=> (u = t \/ HasJailType(j, u))
                            /\ HasJailType(r, u) <=> (u # t /\ HasJailType(j, u))

\* C21's case: a Jail of three types, of which the second is removed and
\* the first added again.
C21_Witness ==
    /\ jails[1].JailTypes = <<"cpu", "network", "io">>
    /\ RemoveJailType(jails[1], "network").JailTypes = <<"cpu", "io">>
    /\ AddJailType(jails[1], "cpu") = jails[1]

\* C22: a jailProcess that adds a type to a record and succeeds leaves the
\* same records, that record changed in JailTypes alone (the type
\* appended), and the root and every live child of the record in every
\* combined directory.
C22_AddTypeMovesAll ==
    Idle =>
        \A pid \in DOMAIN jails, jailType \in {"network", "cpu"} :
            LET r == jailProcess(Cur, jailType, Itoa(pid), NoRefusal)
            IN (~HasJailType(jails[pid], jailType) /\ r.err = "") =>
                   /\ DOMAIN r.jails = DOMAIN jails
                   /\ r.jails[pid] = [jails[pid] EXCEPT !.JailTypes = Append(@, jailType)]
                   /\ \A q \in ({pid} \cup Range(jails[pid].Children)) \cap alive :
                          \A fs \in CombinedPaths : Resident(r, q, fs)

\* Whether the records of r that the state had before keep their
\* OriginalCgroup.
KeepsOriginal(r) ==
    \A q \in DOMAIN r.jails \cap DOMAIN jails :
        r.jails[q].OriginalCgroup = jails[q].OriginalCgroup

\* C23: a record is made with the cgroup the process is read to be in at
\* that call; no jailProcess, unjailProcessSelective or
\* cleanupDeadProcesses, whichever writes are refused, changes the
\* OriginalCgroup of a record there is; unjailProcess writes to the
\* directories of the stored OriginalCgroup and to no other.
C23_OriginalCgroupFixed ==
    Idle =>
        /\ \A pidStr \in PidInputs, jailType \in JailTypeArgs, first \in FirstLines :
               \A fails \in FailSets(jailProcess(CurFirst(first), jailType, pidStr, NoRefusal)) :
                   LET r == jailProcess(CurFirst(first), jailType, pidStr, fails)
                   IN /\ KeepsOriginal(r)
                      /\ \A q \in DOMAIN r.jails \ DOMAIN jails :
                             r.jails[q].OriginalCgroup = loc[q][first]
        /\ \A pidStr \in PidInputs, jailType \in JailTypeArgs :
               \A fails \in FailSets(unjailProcessSelective(Cur, jailType, pidStr, NoRefusal)) :
                   KeepsOriginal(unjailProcessSelective(Cur, jailType, pidStr, fails))
        /\ KeepsOriginal(cleanupDeadProcesses(Cur))
        /\ \A pid \in DOMAIN jails :
               \A fails \in FailSets(unjailProcess(Cur, Itoa(pid), NoRefusal)) :
                   LET r == unjailProcess(Cur, Itoa(pid), fails)
                   IN /\ KeepsOriginal(r)
                      /\ \A i \in Writes(r) :
                             r.log[i].path \in RestorePaths(jails[pid].OriginalCgroup)

\* C23's case: a record to which a type was added, whose root is now in
\* another cgroup than OriginalCgroup in every hierarchy written, and which
\* unjailProcess restores to the stored one.
C23_Witness ==
    /\ Idle
    /\ \E pid \in DOMAIN jails \cap alive :
         /\ Len(jails[pid].JailTypes) = 2
         /\ \A fs \in RestorePaths(jails[pid].OriginalCgroup) : ~Resident(Cur, pid, fs)
         /\ \A fs \in RestorePaths(jails[pid].OriginalCgroup) :
                Resident(unjailProcess(Cur, Itoa(pid), NoRefusal), pid, fs)

\* C24: cleanupDeadProcesses, and the listJails that calls it, leave PID,
\* JailTypes, OriginalCgroup and Timestamp of every record they keep, the
\* cgroup of every process, the directories and the filter as they were,
\* and write to no cgroup.procs.
C24_SweepFrame ==
    Idle =>
        LET r == cleanupDeadProcesses(Cur)
            l == listJails(Cur)
        IN /\ \A pid \in DOMAIN r.jails :
                  /\ r.jails[pid].PID = jails[pid].PID
                  /\ r.jails[pid].JailTypes = jails[pid].JailTypes
                  /\ r.jails[pid].OriginalCgroup = jails[pid].OriginalCgroup
                  /\ r.jails[pid].Timestamp = jails[pid].Timestamp
           /\ l.jails = r.jails
           /\ \A x \in {r, l} :
                  /\ x.loc = loc
                  /\ x.moved = moved
                  /\ x.dirs = dirs
                  /\ x.fw = fw
                  /\ Writes(x) = {}

\* C24's case: a sweep that drops a dead child from a record of two types
\* whose root is in a jail cgroup.
C24_Witness ==
    /\ Idle
    /\ \E pid \in DOMAIN jails \cap alive :
         /\ InJail(Cur, pid)
         /\ Len(jails[pid].JailTypes) = 2
         /\ cleanupDeadProcesses(Cur).jails[pid].Children # jails[pid].Children

\* The indices of the cgroup.procs writes of pid in the log of a command.
WritesOf(r, pid) == {i \in Writes(r) : r.log[i].pid = pid}

\* C25: a jailProcess of a live pid without a record in which no operation
\* of the root is refused returns nil and stores the record, whichever
\* write of a descendant is refused; every enumerated descendant is written
\* once; Children is the enumerated descendants whose write succeeded, in
\* their order, and each of them is in a jail cgroup.
C25_FailedDescendantExcluded ==
    Idle =>
        \A pid \in alive \ DOMAIN jails, jailType \in {"network", "cpu"}, first \in FirstLines :
            \A fails \in FailSets(jailProcess(CurFirst(first), jailType, Itoa(pid), NoRefusal)) :
                LET r == jailProcess(CurFirst(first), jailType, Itoa(pid), fails)
                    descendants == getAllDescendants(pid, TRUE).descendants
                IN (\A f \in fails : f[1] \notin {0, pid}) =>
                       /\ r.err = ""
                       /\ pid \in DOMAIN r.jails
                       /\ \A d \in Range(descendants) : Cardinality(WritesOf(r, d)) = 1
                       /\ r.jails[pid].Children
                              = SelectSeq(descendants,
                                          LAMBDA d : \E i \in WritesOf(r, d) : r.log[i].ok)
                       /\ \A d \in Range(r.jails[pid].Children) : InJail(r, d)
                       /\ \A d \in Range(descendants) \ Range(r.jails[pid].Children) :
                              r.loc[d] = loc[d]

\* C25's case: a pid with two descendants, of which the move of the first
\* is refused: the record holds the second alone.
C25_Witness ==
    /\ Idle
    /\ \E pid \in alive \ DOMAIN jails, first \in FirstLines :
         LET descendants == getAllDescendants(pid, TRUE).descendants
         IN /\ Len(descendants) = 2
            /\ \E fails \in FailSets(jailProcess(CurFirst(first), "network", Itoa(pid), NoRefusal)) :
                 LET r == jailProcess(CurFirst(first), "network", Itoa(pid), fails)
                 IN /\ r.err = ""
                    /\ r.jails[pid].Children = <<descendants[2]>>

\* C26: when the command loop runs, the CPU limit has been written in the
\* cpu-only jail directory and in the combined network+cpu jail directory.
C26_ThrottleOnEveryCpuPath ==
    {CpuCgroupPath(version), NetworkCpuCgroupPath(version)} \subseteq ThrottledDirs

\* C27: in every directory the limit was written in, the period the kernel
\* enforces is 100000 microseconds and the quota is one hundredth of it.
C27_QuotaIsOnePercent ==
    \A fs \in ThrottledDirs :
        /\ CpuPeriodOf(fs) = 100000
        /\ CpuQuotaOf(fs) * 100 = CpuPeriodOf(fs)

\* C28: under v2 each of the three moves of a live pid writes one
\* cgroup.procs, that of the directory of the jail types moved for, and
\* leaves the process in the cgroup of that directory.
C28_UnifiedMoveOnePath ==
    (Idle /\ version = 2) =>
        \A pid \in alive :
            LET OnePath(r, fs) ==
                    /\ r.err = ""
                    /\ Cardinality(Writes(r)) = 1
                    /\ \A i \in Writes(r) : r.log[i].path = fs
                    /\ Resident(r, pid, fs)
            IN /\ OnePath(moveProcessToCgroup(Cur, pid, NoRefusal), NetworkCgroupPath(2))
               /\ OnePath(moveProcessToCpuCgroup(Cur, pid, NoRefusal), CpuCgroupPath(2))
               /\ OnePath(moveProcessToCombinedCgroup(Cur, pid, NoRefusal),
                          NetworkCpuCgroupPath(2))

\* The v1 hierarchies whose directory an error of the combined move names.
NamedHierarchies(err) ==
    {h \in Hierarchies(1) :
        \E cg \in {JailNetworkCgroup, JailCpuCgroup, JailNetworkCpuCgroup} :
            err \in {combinedError(<<h, cg>>), netClsCombinedError(<<h, cg>>)}}

FailedWrites(r) == {i \in Writes(r) : ~r.log[i].ok}

\* C29: under v1 a combined move of a live pid writes each of its two
\* cgroup.procs files at most once; when a write is refused the move
\* returns an error that names the hierarchy of the refused write and no
\* other, and the refused write is the last thing the move does.
C29_PartialMoveNamesHierarchy ==
    (Idle /\ version = 1) =>
        \A pid \in alive :
            \A fails \in FailSets(moveProcessToCombinedCgroup(Cur, pid, NoRefusal)) :
                LET r == moveProcessToCombinedCgroup(Cur, pid, fails)
                IN /\ Cardinality(Writes(r)) <= 2
                   /\ \A i, j \in Writes(r) : r.log[i].path = r.log[j].path => i = j
                   /\ FailedWrites(r) # {} =>
                          /\ r.err # ""
                          /\ FailedWrites(r) = {Len(r.log)}
                          /\ NamedHierarchies(r.err) = {Head(r.log[Len(r.log)].path)}

\* C29 witness: the write to the cpu hierarchy succeeded, the write to
\* net_cls was refused, and the error names net_cls.
C29_Witness ==
    /\ Idle
    /\ version = 1
    /\ \E pid \in alive :
          LET r == moveProcessToCombinedCgroup(Cur, pid, {<<pid, "net_cls">>})
          IN /\ \E i \in Writes(r) : r.log[i].ok /\ Head(r.log[i].path) = "cpu"
             /\ \E i \in FailedWrites(r) : Head(r.log[i].path) = "net_cls"
             /\ Resident(r, pid, NetworkCpuCgroupPath(1))
             /\ NamedHierarchies(r.err) = {"net_cls"}

\* Whether a live process is in the cgroup of directory fs.
Occupied(s, fs) == \E p \in alive : Resident(s, p, fs)

\* Everything but the directories and the log is as the state has it.
ReclaimFrame(r) ==
    /\ r.err = ""
    /\ r.loc = loc
    /\ r.jails = jails
    /\ r.fw = fw
    /\ r.moved = moved

\* C30: cleanupEmptyCgroup of any jail directory, and cleanupCgroup as a
\* whole, never remove a directory a live process is in; the directory
\* passed is the only one that can go, and it goes only when it exists (its
\* cgroup.procs is readable) and lists no process; otherwise the
\* directories are as before; no process moves, no record changes and no
\* error is reported.
C30_ReclaimOnlyEmpty ==
    Idle =>
        /\ \A fs \in dirs \cup InitializedDirs \cup InitialDirs(version) :
              LET r == cleanupEmptyCgroup(Cur, fs)
              IN /\ ReclaimFrame(r)
                 /\ r.dirs \subseteq dirs
                 /\ dirs \ r.dirs \subseteq {fs}
                 /\ Occupied(Cur, fs) => r.dirs = dirs
                 /\ fs \notin dirs => r.dirs = dirs
                 /\ (fs \in dirs /\ ~Occupied(Cur, fs)) => fs \notin r.dirs
        /\ LET r == cleanupCgroup(Cur)
           IN /\ ReclaimFrame(r)
              /\ r.dirs \subseteq dirs
              /\ \A fs \in dirs : Occupied(Cur, fs) => fs \in r.dirs
              /\ dirs \ r.dirs \subseteq ReclaimedPaths(r)

\* C30 witness: a jail directory holds a live process and another is
\* empty; cleanupCgroup passes both to cleanupEmptyCgroup, keeps the first
\* and removes the second.
C30_Witness ==
    /\ Idle
    /\ \E fs, gs \in dirs :
          LET r == cleanupCgroup(Cur)
          IN /\ Occupied(Cur, fs)
             /\ {fs, gs} \subseteq ReclaimedPaths(r)
             /\ fs \in r.dirs
             /\ gs \notin r.dirs

\* Whether the parent pointers lead from the live process c to pid within n
\* steps through processes that can be expanded.
RECURSIVE ReachedFrom(_, _, _, _)
ReachedFrom(pid, c, bad, n) ==
    /\ n > 0
    /\ c \in alive
    /\ \/ ppid[c] = pid
       \/ /\ ppid[c] \in Pids \ bad
          /\ ReachedFrom(pid, ppid[c], bad, n - 1)

C32_ErrorKeepsRegistry ==
    Idle =>
        \A pidStr \in PidInputs, jailType \in JailTypeArgs, first \in FirstLines :
            /\ \A fails \in FailSets(jailProcess(CurFirst(first), jailType, pidStr, NoRefusal)) :
                  LET j == jailProcess(CurFirst(first), jailType, pidStr, fails)
                  IN j.err # "" => j.jails = jails
            /\ \A fails \in FailSets(unjailProcess(Cur, pidStr, NoRefusal)) :
                  LET u == unjailProcess(Cur, pidStr, fails)
                  IN u.err # "" => u.jails = jails
            /\ \A fails \in FailSets(unjailProcessSelective(Cur, jailType, pidStr, NoRefusal)) :
                  LET us == unjailProcessSelective(Cur, jailType, pidStr, fails)
                  IN us.err # "" => us.jails = jails

\* No pid is the root of a record of J and a child of another, a child of
\* two records, or a child of its own record.
TrackedOnce(J) ==
    \A p \in DOMAIN J :
        /\ p \notin Range(J[p].Children)
        /\ \A q \in DOMAIN J \ {p} :
              /\ p \notin Range(J[q].Children)
              /\ Range(J[p].Children) \cap Range(J[q].Children) = {}

\* C33: ActiveJails tracks no pid twice, neither as the command loop finds
\* it nor as a jail command leaves it.
C33_NoPidTrackedTwice ==
    Idle =>
        /\ TrackedOnce(jails)
        /\ \A typeArg \in JailTypeArgs, pidStr \in PidInputs, first \in FirstLines :
              TrackedOnce(executeJail(CurFirst(first), typeArg, pidStr, NoRefusal).jails)

\* C34: after an unjailProcess of a live root in which no write failed, no
\* live descendant of the root is in a jail cgroup, whether it was there
\* when the root was jailed or was forked since.
C34_UnjailFreesDescendants ==
    Idle =>
        \A pid \in DOMAIN jails \cap alive :
            LET r == unjailProcess(Cur, Itoa(pid), NoRefusal)
            IN (\A i \in Writes(r) : r.log[i].ok) =>
                   \A c \in alive : ReachedFrom(pid, c, {}, MaxPid) => ~InJail(r, c)

\* C35: where a live pid without record, none of whose processes is in a
\* jail cgroup, is jailed and then unjailed and no write fails, the root and
\* every child of the record are in the cgroups they were in before the
\* jail.
C35_RestoreToOwnCgroup ==
    Idle =>
        \A pid \in alive \ DOMAIN jails, jailType \in {"network", "cpu"}, first \in FirstLines :
            LET j == jailProcess(CurFirst(first), jailType, Itoa(pid), NoRefusal)
                u == unjailProcess(Again(j), Itoa(pid), NoRefusal)
            IN (/\ j.err = ""
                /\ \A i \in Writes(j) : j.log[i].ok
                /\ \A i \in Writes(u) : u.log[i].ok
                /\ \A c \in {pid} \cup Range(j.jails[pid].Children) : ~InJail(Cur, c))
                   => \A c \in {pid} \cup Range(j.jails[pid].Children) : u.loc[c] = loc[c]

\* C36: every cgroup.procs a move of a live pid writes is in a directory
\* that initializeCgroup made under the name of the jail moved to:
\* jail-network, jail-cpu or jail-network-cpu.
C36_MovesTargetInitializedDirs ==
    Idle =>
        \A pid \in alive :
            LET Targets(r, name) ==
                    \A i \in Writes(r) :
                        /\ r.log[i].path \in InitializedDirs
                        /\ r.log[i].path[Len(r.log[i].path)] = name
            IN /\ Targets(moveProcessToCgroup(Cur, pid, NoRefusal), JailNetworkCgroup)
               /\ Targets(moveProcessToCpuCgroup(Cur, pid, NoRefusal), JailCpuCgroup)
               /\ Targets(moveProcessToCombinedCgroup(Cur, pid, NoRefusal), JailNetworkCpuCgroup)

\* Whether the rules of setupNetworkJail match the traffic of pid: under v2
\* they name the cgroup "jail" at level 1, under v1 the class id that is
\* written to net_cls/jail/net_cls.classid and to no other cgroup.
Filtered(s, pid) ==
    /\ s.fw
    /\ IF version = 2 THEN Head(s.loc[pid]["unified"]) = "jail"
       ELSE s.loc[pid]["net_cls"] = <<"jail">>

\* C37: where a jail command of a live pid returns nil, has made no failed
\* write for the pid and leaves it a record holding network, the rules
\* match the cgroup the pid is in.
C37_NetworkJailIsFiltered ==
    Idle =>
        \A typeArg \in JailTypeArgs, pid \in alive, first \in FirstLines :
            LET r == executeJail(CurFirst(first), typeArg, Itoa(pid), NoRefusal)
            IN (/\ r.err = ""
                /\ \A i \in WritesOf(r, pid) : r.log[i].ok
                /\ pid \in DOMAIN r.jails
                /\ HasJailType(r.jails[pid], "network"))
                   => Filtered(r, pid)

\* C38: whatever exits and forks happen between the reads of /proc, the
\* list getAllDescendants builds never holds the pid it was called for and
\* never holds a pid twice.
C38_ScanListsEachOnce ==
    /\ scan.root \notin Range(scan.descendants)
    /\ NoDuplicate(scan.descendants)

\* C39: once a cleanup has run cleanupCgroup, no directory that the program
\* made under one of its jail names, at initialization or in a move, is
\* left without a live process in it.
C39_NoEmptyJailDirLeft ==
    Idle =>
        \A order \in Perms(DOMAIN jails) :
            LET r == cleanup(Cur, order, NoRefusal)
            IN ReclaimedPaths(r) # {} =>
                   \A fs \in r.dirs :
                       fs[Len(fs)] \in {JailNetworkCgroup, JailCpuCgroup, JailNetworkCpuCgroup}
                           => Occupied(r, fs)

====
